---- MODULE Spec2Model ----
(***************************************************************************)
(* Model of the upload core of clickhouse-backup: separateParts and Upload *)
(* (first source file), Backuper.populateBackupShardField, the diff        *)
(* resolvers and getEmbeddedBackupLocation (pkg/backup/backuper.go).       *)
(***************************************************************************)
EXTENDS Integers, Sequences, FiniteSets, TLC

\* ------------------------------------------------------------------------
\* Bounds
\* ------------------------------------------------------------------------
MaxParts == 2
MaxEntries == 3
MaxFileBytes == 2
MaxBatchBytes == 3

MaxRuns == 2
NumReplicas == 2
NumShardTables == 2
MaxPopulateCalls == 3
MaxBackups == 2
MaxDiffTables == 2
MaxLocCalls == 2

VARIABLES
  spParts,      \* separateParts: the parts argument (each with its walk listing)
  spMaxSize,    \* separateParts: the maxSize argument
  spOut,        \* separateParts: the returned ([][]string, error), or NotCalled
  upCfg,        \* Upload: cfg and the arguments backupName, tablePattern, diffFrom, schemaOnly
  upPc,         \* Upload: position of the run in the function body
  upErr,        \* Upload: the returned error ("" is nil), once upPc = "done"
  upTables,     \* Upload: tablesForUpload
  upTi,         \* Upload: index of the table of the current loop iteration
  upDisksLeft,  \* Upload: disks of table.Parts the range loop has not visited yet
  upDisk,       \* Upload: disk of the current iteration
  upBatches,    \* Upload: parts, the batches separateParts returned for upDisk
  upBi,         \* Upload: i, index of the batch being uploaded (from 0)
  upFiles,      \* Upload: metdataFiles
  upLog,        \* the calls on the remote store that succeeded in this run, in order
  upFailed,     \* the steps that failed in this run
  remote,       \* the objects in the remote store
  resumableState, \* the ledger of units marked done
  doneAtStart,  \* the ledger as it was when this run started
  run,          \* number of the current run of Upload
  shCfg,        \* cfg.General.ShardedOperationMode, the Skip flags of the table list, and
                \* the cluster: the active replicas and the tables system.replicas knows
  shTables,     \* per replica: BackupType of each element of the tables slice
  shBs,         \* per replica: b.bs
  shRet,        \* per replica: what the last call returned and which calls it made
  shPrev,       \* per replica: BackupTypes and return value of the call before the last
  shRuns,       \* per replica: number of calls of populateBackupShardField so far
  dfIn,         \* diff resolvers: the diffFrom argument, the remote listing and the
                \* manifest of the local reference backup
  dfOut,        \* diff resolvers: the call made, what it read and what it returned
  locCfg,       \* getEmbeddedBackupLocation: b.cfg, with the environment of the process
  locOut,       \* getEmbeddedBackupLocation: what the last call returned, the templates
                \* it passed to ApplyMacros and b.cfg as it was before the call
  locCalls      \* getEmbeddedBackupLocation: number of calls on this Backuper so far

batchVars == <<spParts, spMaxSize, spOut>>
uploadVars == <<upCfg, upPc, upErr, upTables, upTi, upDisksLeft, upDisk, upBatches,
                upBi, upFiles, upLog, upFailed, remote, resumableState, doneAtStart, run>>
shardVars == <<shCfg, shTables, shBs, shRet, shPrev, shRuns>>
vars == <<spParts, spMaxSize, spOut, upCfg, upPc, upErr, upTables, upTi, upDisksLeft,
          upDisk, upBatches, upBi, upFiles, upLog, upFailed, remote, resumableState,
          doneAtStart, run, shCfg, shTables, shBs, shRet, shPrev, shRuns, dfIn, dfOut,
          locCfg, locOut, locCalls>>
diffVars == <<dfIn, dfOut>>
locVars == <<locCfg, locOut, locCalls>>

NotCalled == [called |-> FALSE]

\* ------------------------------------------------------------------------
\* The file tree under a part, as filepath.Walk presents it to the callback:
\* one entry per callback invocation, in walk order.
\*   "reg": lstat succeeded, a regular file of sz bytes
\*   "dir": lstat succeeded, not a regular file (directory, symlink, ...)
\*   "err": the callback is invoked with err != nil (lstat or readdir failed)
\* ------------------------------------------------------------------------
WalkEntry ==
  [t : {"reg"}, sz : 0..MaxFileBytes] \cup [t : {"dir", "err"}, sz : {0}]

SeqsUpTo(S, n) == UNION {[1..k -> S] : k \in 0..n}

PartNames == <<"P", "Q", "R", "S">>

\* the listings of all parts, one after the other, of at most MaxEntries
\* entries in total
Listings == SeqsUpTo(WalkEntry, MaxEntries)

\* the ways to cut a listing of n entries into k parts: the index of the
\* last entry of each part
Cuts(n, k) ==
  {c \in [1..k -> 0..n] :
     /\ \A i \in 1..k : i > 1 => c[i - 1] <= c[i]
     /\ IF k > 0 THEN c[k] = n ELSE n = 0}

\* []metadata.Part, each with the listing of its directory
PartsOf(listing, c) ==
  [i \in DOMAIN c |->
     [Name |-> PartNames[i],
      tree |-> SubSeq(listing, (IF i = 1 THEN 0 ELSE c[i - 1]) + 1, c[i])]]

BasePath == <<"disk", "backup", "bk", "shadow", "tbl">>

\* path.Join(basePath, name): both operands are clean, so the join appends
PathJoin(base, name) == Append(base, name)

IsPrefix(p, s) == Len(p) <= Len(s) /\ SubSeq(s, 1, Len(p)) = p

\* strings.TrimPrefix
TrimPrefix(s, prefix) ==
  IF IsPrefix(prefix, s) THEN SubSeq(s, Len(prefix) + 1, Len(s)) ELSE s

\* ------------------------------------------------------------------------
\* separateParts
\* ------------------------------------------------------------------------
InitWalk == [size |-> 0, files |-> <<>>, result |-> <<>>]

\* mutant of CloseBatch: the closed batch is not appended to the result
CloseBatchLost(st) == [st EXCEPT !.files = <<>>, !.size = 0]

\* lines 151-153: close the current batch
CloseBatch(st) ==
  [st EXCEPT !.result = Append(@, st.files), !.files = <<>>, !.size = 0]

\* line 150
OverLimit(size, sz, maxSize) == (size + sz) > maxSize

\* lines 147-158: the callback on an entry that was read without error
WalkFile(st, basePath, filePath, e, maxSize) ==
  IF e.t # "reg" THEN st
  ELSE LET c == IF OverLimit(st.size, e.sz, maxSize) THEN CloseBatch(st) ELSE st
       IN  [c EXCEPT !.files = Append(@, TrimPrefix(filePath, basePath)),
                     !.size = @ + e.sz]

\* filepath.Walk(partPath, callback) from entry k on: the callback returns
\* its err argument when that is non-nil, which ends the walk of this part;
\* the value Walk returns is dropped at line 143.
RECURSIVE WalkFrom(_, _, _, _, _, _)
WalkFrom(st, basePath, partPath, tree, k, maxSize) ==
  IF k > Len(tree) THEN st
  ELSE IF tree[k].t = "err" THEN st
  ELSE WalkFrom(WalkFile(st, basePath, PathJoin(partPath, k), tree[k], maxSize),
                basePath, partPath, tree, k + 1, maxSize)

\* lines 141-160: the loop over parts
RECURSIVE PartsFrom(_, _, _, _, _)
PartsFrom(st, basePath, parts, i, maxSize) ==
  IF i > Len(parts) THEN st
  ELSE PartsFrom(WalkFrom(st, basePath, PathJoin(basePath, parts[i].Name),
                          parts[i].tree, 1, maxSize),
                 basePath, parts, i + 1, maxSize)

\* lines 137-165
separateParts(basePath, parts, maxSize) ==
  LET st == PartsFrom(InitWalk, basePath, parts, 1, maxSize)
  IN  [called |-> TRUE,
       batches |-> IF Len(st.files) > 0 THEN Append(st.result, st.files) ELSE st.result,
       err |-> FALSE]

\* ------------------------------------------------------------------------
\* Specification SpecBatch: separateParts applied to every bounded input
\* ------------------------------------------------------------------------
BatchIdle ==
  /\ spParts = <<>>
  /\ spMaxSize = 0
  /\ spOut = NotCalled

UploadIdle ==
  /\ upCfg = [remoteStorage |-> "none", backupName |-> "", tablePattern |-> "*",
              diffFrom |-> "", schemaOnly |-> FALSE, maxFileSize |-> 0, tree |-> "plain",
              local |-> "present"]
  /\ upPc = "idle"
  /\ upErr = ""
  /\ upTables = <<>>
  /\ upTi = 0
  /\ upDisksLeft = {}
  /\ upDisk = ""
  /\ upBatches = <<>>
  /\ upBi = 0
  /\ upFiles = <<>>
  /\ upLog = <<>>
  /\ upFailed = {}
  /\ remote = {}
  /\ resumableState = {}
  /\ doneAtStart = {}
  /\ run = 0

ShardIdle ==
  /\ shCfg = [mode |-> "", skip |-> <<>>, active |-> {}, known |-> {}]
  /\ shTables = <<>>
  /\ shBs = <<>>
  /\ shRet = <<>>
  /\ shPrev = <<>>
  /\ shRuns = <<>>

DiffIdle ==
  /\ dfIn = [diffFrom |-> <<>>, backupList |-> <<>>, local |-> [found |-> FALSE, Tables |-> <<>>]]
  /\ dfOut = NotCalled

LocIdle ==
  /\ locCfg = [RemoteStorage |-> "none"]
  /\ locOut = NotCalled
  /\ locCalls = 0

BatchInit ==
  /\ \E l \in Listings, k \in 0..MaxParts :
       \E c \in Cuts(Len(l), k) : spParts = PartsOf(l, c)
  /\ spMaxSize \in -1..MaxBatchBytes
  /\ spOut = NotCalled
  /\ UploadIdle
  /\ ShardIdle
  /\ DiffIdle
  /\ LocIdle

CallSeparateParts ==
  /\ ~spOut.called
  /\ spOut' = separateParts(BasePath, spParts, spMaxSize)
  /\ UNCHANGED <<spParts, spMaxSize>>
  /\ UNCHANGED uploadVars
  /\ UNCHANGED shardVars
  /\ UNCHANGED diffVars
  /\ UNCHANGED locVars

BatchNext == CallSeparateParts

SpecBatch == BatchInit /\ [][BatchNext]_vars

\* ------------------------------------------------------------------------
\* Reading the result of separateParts
\* ------------------------------------------------------------------------
Range(f) == {f[x] : x \in DOMAIN f}

RECURSIVE Flatten(_)
Flatten(ss) == IF ss = <<>> THEN <<>> ELSE Head(ss) \o Flatten(Tail(ss))

\* the regular files of one part in walk order, as paths relative to basePath
RECURSIVE RegularFiles(_, _, _)
RegularFiles(name, tree, k) ==
  IF k > Len(tree) THEN <<>>
  ELSE (IF tree[k].t = "reg" THEN <<(<<name, k>>)>> ELSE <<>>)
       \o RegularFiles(name, tree, k + 1)

RECURSIVE AllRegularFiles(_, _)
AllRegularFiles(parts, i) ==
  IF i > Len(parts) THEN <<>>
  ELSE RegularFiles(parts[i].Name, parts[i].tree, 1) \o AllRegularFiles(parts, i + 1)

Readable(parts) ==
  \A i \in 1..Len(parts) : \A k \in 1..Len(parts[i].tree) : parts[i].tree[k].t # "err"

\* size of the file with relative path <<name, k>>
FileSize(parts, f) ==
  LET i == CHOOSE i \in 1..Len(parts) : parts[i].Name = f[1]
  IN  parts[i].tree[f[2]].sz

RECURSIVE BatchBytes(_, _)
BatchBytes(parts, b) ==
  IF b = <<>> THEN 0 ELSE FileSize(parts, Head(b)) + BatchBytes(parts, Tail(b))

\* C1: when every entry under the parts can be read, the batches returned by
\* separateParts, concatenated in batch order, are exactly the regular files
\* of the parts in walk order, part by part: nothing lost, duplicated or
\* reordered.
C1_BatchesPartitionFiles ==
  (spOut.called /\ Readable(spParts)) =>
     Flatten(spOut.batches) = AllRegularFiles(spParts, 1)

\* C1 witness: a call that closed a batch in the middle of a part and
\* returned a second batch with files of two parts
C1_Witness ==
  /\ spOut.called
  /\ Readable(spParts)
  /\ Len(spParts) = 2
  /\ Len(spOut.batches) = 2
  /\ Len(spOut.batches[1]) = 1
  /\ \E f, g \in Range(spOut.batches[2]) : f[1] # g[1]

\* C2: every returned batch whose files' sizes sum to more than maxSize
\* consists of exactly one file, and every batch of two or more files sums
\* to at most maxSize.
C2_OversizeOnlySingleFile ==
  spOut.called =>
    \A b \in 1..Len(spOut.batches) :
      /\ BatchBytes(spParts, spOut.batches[b]) > spMaxSize => Len(spOut.batches[b]) = 1
      /\ Len(spOut.batches[b]) >= 2 => BatchBytes(spParts, spOut.batches[b]) <= spMaxSize

\* C13: whenever reading a file or directory under a part fails during the
\* walk, separateParts returns a non-nil error; it never returns a nil error
\* with batches that leave out files of the unreadable part.
C13_ReadErrorIsReturned ==
  (spOut.called /\ ~Readable(spParts)) => spOut.err

\* C20: every batch returned by separateParts is non-empty, also when the
\* first file is larger than maxSize and when maxSize is 0 or negative.
C20_NoEmptyBatch ==
  spOut.called => \A b \in 1..Len(spOut.batches) : Len(spOut.batches[b]) > 0

\* ------------------------------------------------------------------------
\* The local backup that Upload reads
\* ------------------------------------------------------------------------
Dir == [t |-> "dir", sz |-> 0]
Reg(n) == [t |-> "reg", sz |-> n]
Unreadable == [t |-> "err", sz |-> 0]

\* the directory of each part under shadow/, per file-system variant
PartTree(variant, name) ==
  CASE name = "P" -> IF variant = "unreadable"
                     THEN <<Dir, Reg(1), Unreadable, Reg(2)>>
                     ELSE <<Dir, Reg(1), Reg(2)>>
    [] name = "Q" -> <<Dir, Reg(2)>>
    [] name = "R" -> <<Dir, Reg(1)>>
    [] OTHER      -> <<Dir, Reg(1), Reg(1)>>

PartOf(variant, name) == [Name |-> name, tree |-> PartTree(variant, name)]

\* the table metadata under <dataPath>/backup/<backupName>/metadata; db.t2
\* is a table that the shard assignment made SchemaOnly
LocalTables(variant) ==
  << [Database |-> "db", Table |-> "t1", UUID |-> "", UUID3 |-> "", BackupType |-> "full",
      Parts |-> [d \in {"d1", "d2"} |->
                   IF d = "d1" THEN <<PartOf(variant, "P"), PartOf(variant, "Q")>>
                   ELSE <<PartOf(variant, "R")>>]],
     [Database |-> "db", Table |-> "t2", UUID |-> "abcdef", UUID3 |-> "abc",
      BackupType |-> "schema-only",
      Parts |-> [d \in {"d1"} |-> <<PartOf(variant, "S")>>]] >>

UploadConfigs ==
  [remoteStorage : {"none", "s3"}, backupName : {"", "bk"}, tablePattern : {"*", "db.t1"},
   diffFrom : {"", "prior"}, schemaOnly : BOOLEAN, maxFileSize : {0, 1, 3},
   tree : {"plain", "unreadable"}, local : {"present", "absent", "nometadata"}]

\* the tables of the local backup that match tablePattern
MatchPattern(tables, pattern) ==
  IF pattern = "*" THEN tables ELSE SelectSeq(tables, LAMBDA t : t.Table = "t1")

\* ------------------------------------------------------------------------
\* Upload
\* ------------------------------------------------------------------------
EmptyMap == <<>>

\* the outcomes of the calls Upload makes before it selects the tables
PreconditionIO ==
  {"ok", "chConnect", "newBackupDestination", "bdConnect", "getLocalBackup",
   "getDefaultPath", "getDisks", "stat"}

\* mutant of Preconditions: the metadata directory is not looked at
PreconditionsNoStat(cfg, io) ==
  IF cfg.remoteStorage = "none" THEN [ret |-> TRUE, err |-> ""]
  ELSE IF cfg.backupName = "" THEN [ret |-> TRUE, err |-> "select backup for upload"]
  ELSE IF cfg.diffFrom # "" THEN [ret |-> TRUE, err |-> "diff-from is not supported yet"]
  ELSE IF io = "chConnect" THEN [ret |-> TRUE, err |-> "can't connect to clickhouse"]
  ELSE IF io = "newBackupDestination" THEN [ret |-> TRUE, err |-> "NewBackupDestination"]
  ELSE IF io = "bdConnect" THEN [ret |-> TRUE, err |-> "can't connect to storage"]
  ELSE IF io = "getLocalBackup" \/ cfg.local = "absent"
       THEN [ret |-> TRUE, err |-> "can't upload: backup not found"]
  ELSE IF io = "getDefaultPath" THEN [ret |-> TRUE, err |-> "ErrUnknownClickhouseDataPath"]
  ELSE IF io = "getDisks" THEN [ret |-> TRUE, err |-> "GetDisks"]
  ELSE [ret |-> FALSE, err |-> ""]

\* lines 22-69: the value returned before line 70, or "" with ret FALSE;
\* cfg.local is the state of the backup directory that GetLocalBackup
\* (line 50) and os.Stat (line 66) find
Preconditions(cfg, io) ==
  IF cfg.remoteStorage = "none" THEN [ret |-> TRUE, err |-> ""]
  ELSE IF cfg.backupName = "" THEN [ret |-> TRUE, err |-> "select backup for upload"]
  ELSE IF cfg.diffFrom # "" THEN [ret |-> TRUE, err |-> "diff-from is not supported yet"]
  ELSE IF io = "chConnect" THEN [ret |-> TRUE, err |-> "can't connect to clickhouse"]
  ELSE IF io = "newBackupDestination" THEN [ret |-> TRUE, err |-> "NewBackupDestination"]
  ELSE IF io = "bdConnect" THEN [ret |-> TRUE, err |-> "can't connect to storage"]
  ELSE IF io = "getLocalBackup" \/ cfg.local = "absent"
       THEN [ret |-> TRUE, err |-> "can't upload: backup not found"]
  ELSE IF io = "getDefaultPath" THEN [ret |-> TRUE, err |-> "ErrUnknownClickhouseDataPath"]
  ELSE IF io = "getDisks" THEN [ret |-> TRUE, err |-> "GetDisks"]
  ELSE IF io = "stat" \/ cfg.local = "nometadata" THEN [ret |-> TRUE, err |-> "stat metadata"]
  ELSE [ret |-> FALSE, err |-> ""]

\* lines 73-76
UuidPath(table) ==
  IF table.UUID # "" THEN <<table.UUID3, table.UUID>> ELSE <<table.Database, table.Table>>

\* line 80
BackupPath(cfg, disk, table) == <<disk, "backup", cfg.backupName, "shadow">> \o UuidPath(table)

\* mutant of ArchiveName: the archives are numbered from zero
ArchiveNameFromZero(disk, i) == <<disk, i>>

\* line 87: "<disk>_<i+1>.<ext>"
ArchiveName(disk, i) == <<disk, i + 1>>

\* line 89
RemoteDataFile(cfg, table, fileName) ==
  <<cfg.backupName, "shadow", table.Database, table.Table, fileName>>

\* line 104
RemoteTableMetaFile(cfg, table) == <<cfg.backupName, "metadata", table.Database, table.Table>>

\* line 124
RemoteBackupMetaFile(cfg) == <<cfg.backupName, "metadata.json">>

\* bd.PutFile and bd.CompressedStreamUpload leave the object under its key
Put(store, key, body) ==
  {o \in store : o.key # key} \cup {[key |-> key, body |-> body]}

Keys(store) == {o.key : o \in store}

Return(err) ==
  /\ upPc' = "done"
  /\ upErr' = err

UploadInit ==
  /\ BatchIdle
  /\ ShardIdle
  /\ DiffIdle
  /\ LocIdle
  /\ upCfg \in UploadConfigs
  /\ upPc = "start"
  /\ upErr = ""
  /\ upTables = <<>>
  /\ upTi = 0
  /\ upDisksLeft = {}
  /\ upDisk = ""
  /\ upBatches = <<>>
  /\ upBi = 0
  /\ upFiles = EmptyMap
  /\ upLog = <<>>
  /\ upFailed = {}
  /\ remote = {}
  /\ resumableState = {}
  /\ doneAtStart = {}
  /\ run = 1

\* lines 21-69
UploadStart ==
  /\ upPc = "start"
  /\ \E io \in PreconditionIO :
       LET r == Preconditions(upCfg, io) IN
       /\ IF r.ret THEN Return(r.err) ELSE upPc' = "select" /\ upErr' = ""
       /\ upFailed' = IF r.err # "" THEN upFailed \cup {"precondition"} ELSE upFailed
  /\ UNCHANGED <<upCfg, upTables, upTi, upDisksLeft, upDisk, upBatches, upBi, upFiles,
                 upLog, remote, resumableState, doneAtStart, run>>
  /\ UNCHANGED batchVars
  /\ UNCHANGED shardVars
  /\ UNCHANGED diffVars
  /\ UNCHANGED locVars

\* line 70: parseSchemaPattern; the error it returns is assigned and not read
SelectTables ==
  /\ upPc = "select"
  /\ \E ok \in BOOLEAN :
       LET sel == MatchPattern(LocalTables(upCfg.tree), upCfg.tablePattern) IN
       \E n \in 0..Len(sel) :
         /\ ok => n = Len(sel)
         /\ upTables' = SubSeq(sel, 1, n)
         /\ upFailed' = IF ok THEN upFailed ELSE upFailed \cup {"select"}
  /\ upTi' = 1
  /\ upPc' = "table"
  /\ UNCHANGED <<upCfg, upErr, upDisksLeft, upDisk, upBatches, upBi, upFiles,
                 upLog, remote, resumableState, doneAtStart, run>>
  /\ UNCHANGED batchVars
  /\ UNCHANGED shardVars
  /\ UNCHANGED diffVars
  /\ UNCHANGED locVars

\* mutant of LoopDone: the loop stops one element early
LoopDoneEarly(i, list) == i >= Len(list)

\* lines 72, 86: a range loop over a slice has passed its last element
LoopDone(i, list) == i > Len(list)

\* lines 72-79: head of the loop over tablesForUpload
BeginTable ==
  /\ upPc = "table"
  /\ IF LoopDone(upTi, upTables)
     THEN upPc' = "manifest" /\ UNCHANGED <<upFiles, upDisksLeft>>
     ELSE /\ upFiles' = EmptyMap
          /\ IF upCfg.schemaOnly
             THEN upPc' = "meta" /\ UNCHANGED upDisksLeft
             ELSE upPc' = "disk" /\ upDisksLeft' = DOMAIN upTables[upTi].Parts
  /\ UNCHANGED <<upCfg, upErr, upTables, upTi, upDisk, upBatches, upBi,
                 upLog, upFailed, remote, resumableState, doneAtStart, run>>
  /\ UNCHANGED batchVars
  /\ UNCHANGED shardVars
  /\ UNCHANGED diffVars
  /\ UNCHANGED locVars

\* lines 79-85: one iteration of the range over table.Parts (a Go map, so in
\* any order) up to the call of separateParts
NextDisk ==
  /\ upPc = "disk"
  /\ IF upDisksLeft = {}
     THEN /\ upPc' = "meta"
          /\ UNCHANGED <<upErr, upDisksLeft, upDisk, upBatches, upBi, upFailed>>
     ELSE \E disk \in upDisksLeft :
            LET table == upTables[upTi]
                r == separateParts(BackupPath(upCfg, disk, table), table.Parts[disk],
                                   upCfg.maxFileSize)
            IN  /\ upDisksLeft' = upDisksLeft \ {disk}
                /\ upDisk' = disk
                /\ upFailed' = IF Readable(table.Parts[disk]) THEN upFailed
                               ELSE upFailed \cup {"separateParts"}
                /\ IF r.err
                   THEN Return("separateParts") /\ UNCHANGED <<upBatches, upBi>>
                   ELSE /\ upBatches' = r.batches
                        /\ upBi' = 0
                        /\ upPc' = "batch"
                        /\ upErr' = ""
  /\ UNCHANGED <<upCfg, upTables, upTi, upFiles, upLog, remote, resumableState,
                 doneAtStart, run>>
  /\ UNCHANGED batchVars
  /\ UNCHANGED shardVars
  /\ UNCHANGED diffVars
  /\ UNCHANGED locVars

\* lines 86-94: one iteration of the loop over the batches
UploadArchive ==
  /\ upPc = "batch"
  /\ IF LoopDone(upBi + 1, upBatches)
     THEN /\ upPc' = "disk"
          /\ UNCHANGED <<upErr, upBi, upFiles, upLog, upFailed, remote, resumableState>>
     ELSE \E ok \in BOOLEAN :
            LET table == upTables[upTi]
                fileName == ArchiveName(upDisk, upBi)
                key == RemoteDataFile(upCfg, table, fileName)
                had == IF upDisk \in DOMAIN upFiles THEN upFiles[upDisk] ELSE <<>>
            IN  /\ upFiles' = (upDisk :> Append(had, fileName)) @@ upFiles
                /\ IF ok
                   THEN /\ remote' = Put(remote, key, upBatches[upBi + 1])
                        /\ resumableState' = resumableState \cup {key}
                        /\ upLog' = Append(upLog, [op |-> "CompressedStreamUpload", key |-> key,
                                                   body |-> upBatches[upBi + 1]])
                        /\ upBi' = upBi + 1
                        /\ UNCHANGED <<upPc, upErr, upFailed>>
                   ELSE /\ Return("can't upload")
                        /\ upFailed' = upFailed \cup {"CompressedStreamUpload"}
                        /\ UNCHANGED <<upBi, upLog, remote, resumableState>>
  /\ UNCHANGED <<upCfg, upTables, upTi, upDisksLeft, upDisk, upBatches, doneAtStart, run>>
  /\ UNCHANGED batchVars
  /\ UNCHANGED shardVars
  /\ UNCHANGED diffVars
  /\ UNCHANGED locVars

\* lines 97-109: write the metadata of the table
PutTableMeta ==
  /\ upPc = "meta"
  /\ \E ok \in BOOLEAN :
       LET table == upTables[upTi]
           key == RemoteTableMetaFile(upCfg, table)
           body == [Database |-> table.Database, Table |-> table.Table, Files |-> upFiles]
       IN  IF ok
           THEN /\ remote' = Put(remote, key, body)
                /\ upLog' = Append(upLog, [op |-> "PutFile", key |-> key, body |-> body])
                /\ upTi' = upTi + 1
                /\ upPc' = "table"
                /\ UNCHANGED <<upErr, upFailed>>
           ELSE /\ Return("can't upload")
                /\ upFailed' = upFailed \cup {"PutFile table metadata"}
                /\ UNCHANGED <<upTi, upLog, remote>>
  /\ UNCHANGED <<upCfg, upTables, upDisksLeft, upDisk, upBatches, upBi, upFiles,
                 resumableState, doneAtStart, run>>
  /\ UNCHANGED batchVars
  /\ UNCHANGED shardVars
  /\ UNCHANGED diffVars
  /\ UNCHANGED locVars

\* lines 110-128: read the local manifest and write it to the remote store
PutManifest ==
  /\ upPc = "manifest"
  /\ \E io \in {"ok", "readFile", "putFile"} :
       LET key == RemoteBackupMetaFile(upCfg) IN
       IF io = "ok"
       THEN /\ remote' = Put(remote, key, "metadata.json")
            /\ upLog' = Append(upLog, [op |-> "PutFile", key |-> key, body |-> "metadata.json"])
            /\ upPc' = "retention"
            /\ UNCHANGED <<upErr, upFailed>>
       ELSE /\ Return(IF io = "readFile" THEN "read metadata.json" ELSE "can't upload")
            /\ upFailed' = upFailed \cup {"manifest"}
            /\ UNCHANGED <<upLog, remote>>
  /\ UNCHANGED <<upCfg, upTables, upTi, upDisksLeft, upDisk, upBatches, upBi, upFiles,
                 resumableState, doneAtStart, run>>
  /\ UNCHANGED batchVars
  /\ UNCHANGED shardVars
  /\ UNCHANGED diffVars
  /\ UNCHANGED locVars

\* lines 130-134: retention, then return nil
RemoveOldBackups ==
  /\ upPc = "retention"
  /\ \E ok \in BOOLEAN :
       IF ok
       THEN /\ upLog' = Append(upLog, [op |-> "RemoveOldBackups", key |-> <<>>, body |-> <<>>])
            /\ Return("")
            /\ UNCHANGED upFailed
       ELSE /\ Return("can't remove old backups")
            /\ upFailed' = upFailed \cup {"RemoveOldBackups"}
            /\ UNCHANGED upLog
  /\ UNCHANGED <<upCfg, upTables, upTi, upDisksLeft, upDisk, upBatches, upBi, upFiles,
                 remote, resumableState, doneAtStart, run>>
  /\ UNCHANGED batchVars
  /\ UNCHANGED shardVars
  /\ UNCHANGED diffVars
  /\ UNCHANGED locVars

\* the process is interrupted in the middle of a run
Interrupt ==
  /\ upPc \in {"select", "table", "disk", "batch", "meta", "manifest", "retention"}
  /\ upPc' = "interrupted"
  /\ UNCHANGED <<upCfg, upErr, upTables, upTi, upDisksLeft, upDisk, upBatches, upBi,
                 upFiles, upLog, upFailed, remote, resumableState, doneAtStart, run>>
  /\ UNCHANGED batchVars
  /\ UNCHANGED shardVars
  /\ UNCHANGED diffVars
  /\ UNCHANGED locVars

\* the upload command is run again with the same arguments
Rerun ==
  /\ upPc = "interrupted" \/ (upPc = "done" /\ upErr # "")
  /\ run < MaxRuns
  /\ run' = run + 1
  /\ doneAtStart' = resumableState
  /\ upPc' = "start"
  /\ upErr' = ""
  /\ upTables' = <<>>
  /\ upTi' = 0
  /\ upDisksLeft' = {}
  /\ upDisk' = ""
  /\ upBatches' = <<>>
  /\ upBi' = 0
  /\ upFiles' = EmptyMap
  /\ upLog' = <<>>
  /\ upFailed' = {}
  /\ UNCHANGED <<upCfg, remote, resumableState>>
  /\ UNCHANGED batchVars
  /\ UNCHANGED shardVars
  /\ UNCHANGED diffVars
  /\ UNCHANGED locVars

UploadNext ==
  \/ UploadStart
  \/ SelectTables
  \/ BeginTable
  \/ NextDisk
  \/ UploadArchive
  \/ PutTableMeta
  \/ PutManifest
  \/ RemoveOldBackups
  \/ Interrupt
  \/ Rerun

SpecUpload == UploadInit /\ [][UploadNext]_vars

\* ------------------------------------------------------------------------
\* Reading a run of Upload
\* ------------------------------------------------------------------------
LogIndexes(op) == {i \in 1..Len(upLog) : upLog[i].op = op}

ManifestWrites ==
  {i \in LogIndexes("PutFile") : upLog[i].key = RemoteBackupMetaFile(upCfg)}

TableMetaWrites(table) ==
  {i \in LogIndexes("PutFile") : upLog[i].key = RemoteTableMetaFile(upCfg, table)}

UploadedKeys == {upLog[i].key : i \in LogIndexes("CompressedStreamUpload")}

UploadedFiles == UNION {Range(upLog[i].body) : i \in LogIndexes("CompressedStreamUpload")}

\* C3: in every run of Upload the manifest is written to the remote store
\* only after the metadata of every table of tablesForUpload has been
\* written successfully in that run.
C3_ManifestAfterAllTableMetadata ==
  \A m \in ManifestWrites :
    \A t \in 1..Len(upTables) :
      \E w \in TableMetaWrites(upTables[t]) : w < m

\* C3 witness: a run that selected two tables and published the manifest
C3_Witness ==
  /\ upPc = "done"
  /\ upErr = ""
  /\ Len(upTables) = 2
  /\ ManifestWrites # {}

\* C4: a failure of any step of Upload ends the run with a non-nil error,
\* and once a step before the manifest has failed neither the manifest is
\* published nor retention run.
C4_FailureEndsInError ==
  /\ (upPc = "done" /\ upFailed # {}) => upErr # ""
  /\ (upFailed \ {"manifest", "RemoveOldBackups"}) # {} =>
        /\ ManifestWrites = {}
        /\ LogIndexes("RemoveOldBackups") = {}

\* the table of tablesForUpload whose metadata the log entry w writes
TableOfWrite(w) ==
  CHOOSE t \in 1..Len(upTables) : upLog[w].key = RemoteTableMetaFile(upCfg, upTables[t])

\* the writes of table metadata in the log
AllTableMetaWrites ==
  {w \in LogIndexes("PutFile") :
     \E t \in 1..Len(upTables) : upLog[w].key = RemoteTableMetaFile(upCfg, upTables[t])}

\* the batches separateParts makes of the parts of a table on a disk
BatchesOf(table, disk) ==
  separateParts(BackupPath(upCfg, disk, table), table.Parts[disk], upCfg.maxFileSize).batches

\* C16: in a run that uploads data, the metadata of a table is written only
\* after every batch of every disk of the table was uploaded, the Files map
\* written lists for each disk with n batches exactly <disk>_1 .. <disk>_n in
\* order, and every name in a written Files map was uploaded before, to
\* <backupName>/shadow/<db>/<table>/<name>.
C16_MetadataAfterAllBatches ==
  \A w \in AllTableMetaWrites :
    LET table == upTables[TableOfWrite(w)]
        files == upLog[w].body.Files
    IN  /\ DOMAIN files \subseteq DOMAIN table.Parts
        /\ ~upCfg.schemaOnly =>
              \A d \in DOMAIN table.Parts :
                LET n == Len(BatchesOf(table, d)) IN
                IF n = 0 THEN d \notin DOMAIN files
                ELSE /\ d \in DOMAIN files
                     /\ files[d] = [k \in 1..n |-> <<d, k>>]
                     /\ \A k \in 1..n :
                          \E u \in LogIndexes("CompressedStreamUpload") :
                            /\ u < w
                            /\ upLog[u].body = BatchesOf(table, d)[k]
                            /\ upLog[u].key = <<upCfg.backupName, "shadow", table.Database,
                                                table.Table, <<d, k>> >>
        /\ \A d \in DOMAIN files :
             \A k \in 1..Len(files[d]) :
               \E u \in LogIndexes("CompressedStreamUpload") :
                 /\ u < w
                 /\ upLog[u].key = <<upCfg.backupName, "shadow", table.Database,
                                     table.Table, files[d][k]>>

\* C16 witness: the metadata of db.t1 was written with two archives of disk
\* d1 and one of disk d2
C16_Witness ==
  \E w \in AllTableMetaWrites :
    /\ upTables[TableOfWrite(w)].Table = "t1"
    /\ DOMAIN upLog[w].body.Files = {"d1", "d2"}
    /\ Len(upLog[w].body.Files["d1"]) = 2
    /\ Len(upLog[w].body.Files["d2"]) = 1

\* the archives uploaded for a table in this run
ArchivesOf(table) ==
  {u \in LogIndexes("CompressedStreamUpload") :
     upLog[u].key[3] = table.Database /\ upLog[u].key[4] = table.Table}

\* C17: for a table whose BackupType is SchemaOnly, and for every table when
\* the run is schema-only, Upload makes no CompressedStreamUpload call for
\* the table and writes its metadata with an empty Files map; a run that
\* returns nil has published the manifest.
C17_SchemaOnlyUploadsNoData ==
  /\ \A t \in 1..Len(upTables) :
       (upCfg.schemaOnly \/ upTables[t].BackupType = "schema-only") =>
          /\ ArchivesOf(upTables[t]) = {}
          /\ \A w \in TableMetaWrites(upTables[t]) : upLog[w].body.Files = EmptyMap
  /\ (upPc = "done" /\ upErr = "" /\ upCfg.remoteStorage # "none") => ManifestWrites # {}

\* a precondition of Upload that the arguments or the local backup directory
\* leave unmet
PreconditionUnmet(cfg) ==
  \/ cfg.backupName = ""
  \/ cfg.diffFrom # ""
  \/ cfg.local # "present"

\* C12 as stated: a run of Upload with a precondition unmet (empty backup
\* name, non-empty diff-from, backup absent locally, metadata directory
\* missing) returns a non-nil error and makes no CompressedStreamUpload,
\* PutFile or RemoveOldBackups call.
C12_UnmetPreconditionIsError ==
  (upPc = "done" /\ PreconditionUnmet(upCfg)) =>
     /\ upErr # ""
     /\ upLog = <<>>

\* C12 amended: a run of Upload with a precondition unmet never makes a
\* CompressedStreamUpload, PutFile or RemoveOldBackups call, and when remote
\* storage is not "none" it returns a non-nil error.
C12_UnmetPreconditionNoWrite ==
  PreconditionUnmet(upCfg) =>
     /\ upLog = <<>>
     /\ remote = {}
     /\ (upPc = "done" /\ upCfg.remoteStorage # "none") => upErr # ""

\* C12 witness: a run for a backup whose metadata directory is missing has
\* returned the error of os.Stat
C12_Witness ==
  /\ upPc = "done"
  /\ upCfg.remoteStorage = "s3"
  /\ upCfg.backupName = "bk"
  /\ upCfg.diffFrom = ""
  /\ upCfg.local = "nometadata"
  /\ upErr = "stat metadata"
  /\ upLog = <<>>

\* the reference backup "prior" holds table db.t1 with part P
PriorParts == [Database |-> "db", Table |-> "t1", Parts |-> {"P"}]

\* C7: an upload of db.t1 with parts {P, Q} and diff-from set to a prior
\* backup that holds db.t1 with part P succeeds, uploads the files of Q and
\* uploads no file of P.
C7_DiffUploadsOnlyNewParts ==
  (/\ upPc = "done"
   /\ run = 1
   /\ upFailed \subseteq {"precondition"}
   /\ upCfg.remoteStorage # "none"
   /\ upCfg.backupName # ""
   /\ upCfg.diffFrom = "prior"
   /\ ~upCfg.schemaOnly) =>
     /\ upErr = ""
     /\ \E f \in UploadedFiles : f[Len(f) - 1] = "Q"
     /\ \A f \in UploadedFiles : f[Len(f) - 1] \notin PriorParts.Parts

\* C9: a unit marked done is an archive present at the destination, and a
\* re-run of an interrupted upload uploads no batch that was marked done
\* when it started and, when it succeeds, has uploaded all the others.
C9_RerunUploadsOnlyRemaining ==
  /\ resumableState \subseteq Keys(remote)
  /\ run > 1 => UploadedKeys \cap doneAtStart = {}
  /\ (run > 1 /\ upPc = "done" /\ upErr = "" /\ upCfg.remoteStorage # "none") =>
        resumableState = UploadedKeys \cup doneAtStart

\* ------------------------------------------------------------------------
\* Backuper.populateBackupShardField
\* ------------------------------------------------------------------------
Replicas == 1..NumReplicas

\* the tables slice: Database and Name of each element
ShardTables == [i \in 1..NumShardTables |-> [Database |-> "db", Name |-> i]]

ShardModes == {"", "table", "first-replica", "bogus"}

\* shardFuncByName: the policies known by name
ShardFuncs == {"table", "first-replica"}

\* doesShard: a sharding policy is configured
doesShard(mode) == mode # ""

\* shardFuncByName
shardFuncByName(mode) ==
  IF mode \in ShardFuncs THEN [fn |-> mode, err |-> ""]
  ELSE [fn |-> "nil", err |-> "unknown backup sharding option"]

RECURSIVE SortedSeq(_)
SortedSeq(S) ==
  IF S = {} THEN <<>>
  ELSE LET m == CHOOSE x \in S : \A y \in S : x <= y
       IN  <<m>> \o SortedSeq(S \ {m})

TableHash(database, name) == name * 7 + 3

\* the replica a shard function makes responsible for a table, given the
\* active replicas
Owner(fn, database, name, active) ==
  LET sorted == SortedSeq(active)
  IN  IF fn = "first-replica" THEN sorted[1]
      ELSE sorted[(TableHash(database, name) % Len(sorted)) + 1]

\* b.bs.determineShards on replica r: the assignment, a map from the tables
\* the cluster reports to "this replica holds the full copy"
determineShards(fn, r, cluster) ==
  [t \in cluster.known |->
     Owner(fn, ShardTables[t].Database, ShardTables[t].Name, cluster.active) = r]

\* assignment.inShard
inShard(assignment, t) ==
  IF t \in DOMAIN assignment THEN [full |-> assignment[t], err |-> ""]
  ELSE [full |-> FALSE, err |-> "unknown backup shard"]

\* mutant of DefaultBackupType: a skipped table starts Full like the others
DefaultAlwaysFull(skip) == "full"

\* lines 123-128
DefaultBackupType(skip) == IF skip THEN "none" ELSE "full"

\* mutant of ReturnsOn: the error is dropped and the call goes on
ReturnsOnNothing(err) == FALSE

\* lines 132-134, 139-141, 145-147, 153-155: if err != nil { return err }
ReturnsOn(err) == err # ""

\* mutant of Sharder: the determiner built on one call is not the one a
\* later call finds in b.bs
SharderNotKept(bs, shardFunc) == IF bs = "nil" THEN shardFunc ELSE "first-replica"

\* lines 136-143: b.bs after the if
Sharder(bs, shardFunc) == IF bs = "nil" THEN shardFunc ELSE bs

\* mutant of Downgrade: the assignment goes to the loop's copy of the table
DowngradeCopy(backupType, fullBackup) == backupType

\* lines 156-158
Downgrade(backupType, fullBackup) == IF ~fullBackup THEN "schema-only" ELSE backupType

\* lines 148-159: the loop over tables from index i on; looked is the set of
\* tables passed to inShard
RECURSIVE AssignFrom(_, _, _, _, _)
AssignFrom(types, skip, assignment, i, looked) ==
  IF i > Len(types) THEN [types |-> types, err |-> "", looked |-> looked]
  ELSE IF skip[i] THEN AssignFrom(types, skip, assignment, i + 1, looked)
  ELSE LET s == inShard(assignment, i) IN
       IF ReturnsOn(s.err)
       THEN [types |-> types, err |-> s.err, looked |-> looked \cup {i}]
       ELSE AssignFrom([types EXCEPT ![i] = Downgrade(@, s.full)], skip, assignment,
                       i + 1, looked \cup {i})

NoCalls == [cap |-> FALSE, capErr |-> "", det |-> FALSE, looked |-> {}]

\* lines 121-161 on replica r; capErr and detErr are what CanShardOperation
\* and determineShards return on this call
populateBackupShardField(r, bs, cfg, capErr, detErr) ==
  LET types == [i \in 1..Len(cfg.skip) |-> DefaultBackupType(cfg.skip[i])]
      out(ty, b, err, calls) == [types |-> ty, bs |-> b, err |-> err, calls |-> calls]
      capCalls == [NoCalls EXCEPT !.cap = TRUE, !.capErr = capErr]
  IN  IF ~doesShard(cfg.mode) THEN out(types, bs, "", NoCalls)
      ELSE IF ReturnsOn(capErr) THEN out(types, bs, capErr, capCalls)
      ELSE LET f == shardFuncByName(cfg.mode) IN
           IF bs = "nil" /\ ReturnsOn(f.err)
           THEN out(types, bs, "could not determine shards for tables", capCalls)
           ELSE LET b == Sharder(bs, f.fn)
                    detCalls == [capCalls EXCEPT !.det = TRUE]
                IN  IF ReturnsOn(detErr) THEN out(types, b, detErr, detCalls)
                    ELSE LET a == AssignFrom(types, cfg.skip, determineShards(b, r, cfg),
                                             1, {})
                         IN  out(a.types, b, a.err, [detCalls EXCEPT !.looked = a.looked])

NotRun == [err |-> "not run", calls |-> NoCalls]

ShardConfigs ==
  [mode : ShardModes,
   skip : [1..NumShardTables -> BOOLEAN],
   active : (SUBSET Replicas) \ {{}},
   known : {1..NumShardTables, 1..(NumShardTables - 1)}]

ShardInit ==
  /\ BatchIdle
  /\ UploadIdle
  /\ DiffIdle
  /\ LocIdle
  /\ shCfg \in ShardConfigs
  /\ shTables = [r \in Replicas |-> [i \in 1..NumShardTables |-> ""]]
  /\ shBs = [r \in Replicas |-> "nil"]
  /\ shRet = [r \in Replicas |-> NotRun]
  /\ shPrev = [r \in Replicas |-> [types |-> <<>>, err |-> "not run"]]
  /\ shRuns = [r \in Replicas |-> 0]

RECURSIVE SumUpTo(_, _)
SumUpTo(f, n) == IF n = 0 THEN 0 ELSE f[n] + SumUpTo(f, n - 1)

\* the calls made so far on all replicas
PopulateCalls == SumUpTo(shRuns, NumReplicas)

\* one call of b.populateBackupShardField(ctx, tables) on replica r
Populate(r) ==
  /\ PopulateCalls < MaxPopulateCalls
  /\ \E capErr \in {"", "sharded operations are not supported"},
        detErr \in {"", "determineShards"} :
       LET o == populateBackupShardField(r, shBs[r], shCfg, capErr, detErr) IN
       /\ shTables' = [shTables EXCEPT ![r] = o.types]
       /\ shBs' = [shBs EXCEPT ![r] = o.bs]
       /\ shRet' = [shRet EXCEPT ![r] = [err |-> o.err, calls |-> o.calls]]
  /\ shPrev' = [shPrev EXCEPT ![r] = [types |-> shTables[r], err |-> shRet[r].err]]
  /\ shRuns' = [shRuns EXCEPT ![r] = @ + 1]
  /\ UNCHANGED shCfg
  /\ UNCHANGED batchVars
  /\ UNCHANGED uploadVars
  /\ UNCHANGED diffVars
  /\ UNCHANGED locVars

ShardNext == \E r \in Replicas : Populate(r)

SpecShard == ShardInit /\ [][ShardNext]_vars

\* ------------------------------------------------------------------------
\* Reading the decisions of the replicas
\* ------------------------------------------------------------------------
FullReplicas(t) == {r \in Replicas : shTables[r][t] = "full"}

AllReturnedNil == \A r \in Replicas : shRuns[r] >= 1 /\ shRet[r].err = ""

\* C5: with a sharding policy configured, once every replica has run
\* populateBackupShardField without error on the same table list and the
\* same cluster membership, every table not marked Skip is Full on exactly
\* one replica and SchemaOnly on all the others.
C5_ExactlyOneFull ==
  (doesShard(shCfg.mode) /\ AllReturnedNil) =>
    \A t \in 1..NumShardTables :
      ~shCfg.skip[t] =>
        /\ Cardinality(FullReplicas(t)) = 1
        /\ \A r \in Replicas \ FullReplicas(t) : shTables[r][t] = "schema-only"

\* C5 witness: all replicas returned nil under the hash policy and two
\* tables went to two different replicas
C5_Witness ==
  /\ shCfg.mode = "table"
  /\ AllReturnedNil
  /\ \A t \in 1..NumShardTables : ~shCfg.skip[t]
  /\ \E t, u \in 1..NumShardTables : FullReplicas(t) # FullReplicas(u)

C10_CapabilityErrorIsFatal ==
  \A r \in Replicas :
    (shRet[r].calls.cap /\ shRet[r].calls.capErr # "") =>
       /\ shRet[r].err = shRet[r].calls.capErr
       /\ ~shRet[r].calls.det
       /\ shRet[r].calls.looked = {}
       /\ \A t \in 1..NumShardTables : shTables[r][t] # "schema-only"

\* C10 witness: the capability check failed on a replica whose earlier call
\* had downgraded a table
C10_Witness ==
  \E r \in Replicas :
    /\ shRet[r].calls.cap
    /\ shRet[r].calls.capErr # ""
    /\ shRet[r].err # ""
    /\ \E t \in 1..NumShardTables : shPrev[r].types[t] = "schema-only"

\* C15: after populateBackupShardField returns without error, a table is
\* None exactly when it is marked Skip; a table not skipped is Full when no
\* sharding policy is configured or the assignment puts this replica in the
\* shard of the table, and SchemaOnly when it does not. Skipped tables are
\* never passed to inShard, and with no sharding policy neither
\* CanShardOperation nor determineShards is called.
C15_BackupTypeMapping ==
  \A r \in Replicas :
    (shRuns[r] >= 1 /\ shRet[r].err = "") =>
      /\ \A t \in 1..NumShardTables :
            /\ shTables[r][t] = "none" <=> shCfg.skip[t]
            /\ ~shCfg.skip[t] =>
                 shTables[r][t] =
                   IF ~doesShard(shCfg.mode) THEN "full"
                   ELSE IF inShard(determineShards(shBs[r], r, shCfg), t).full THEN "full"
                   ELSE "schema-only"
      /\ \A t \in shRet[r].calls.looked : ~shCfg.skip[t]
      /\ ~doesShard(shCfg.mode) =>
            /\ ~shRet[r].calls.cap
            /\ ~shRet[r].calls.det
            /\ shRet[r].calls.looked = {}

\* C15 witness: a replica returned nil under the hash policy with one table
\* skipped and the other, the only one looked up, downgraded
C15_Witness ==
  \E r \in Replicas :
    /\ shRuns[r] >= 1
    /\ shRet[r].err = ""
    /\ shCfg.mode = "table"
    /\ \E t, u \in 1..NumShardTables :
         /\ shCfg.skip[t]
         /\ shTables[r][t] = "none"
         /\ shTables[r][u] = "schema-only"
         /\ shRet[r].calls.looked = {u}

\* ------------------------------------------------------------------------
\* Backuper.getTablesDiffFromLocal and Backuper.getTablesDiffFromRemote
\* ------------------------------------------------------------------------
\* backup names, as strings of characters
BackupNames == {<<"a">>, <<"a", "b">>, <<"b">>}

\* metadata.TableTitle
TableTitles == [Database : {"db"}, Table : {"t1", "t2"}]

\* BackupMetadata.Tables of a manifest
Manifests ==
  {<<>>, <<[Database |-> "db", Table |-> "t1"]>>,
   <<[Database |-> "db", Table |-> "t1"], [Database |-> "db", Table |-> "t2"]>>}

\* metadata.TableMetadata as the table enumeration returns it
TableMetadatas == [Database : {"db"}, Table : {"t1", "t2"}, Parts : {{"P"}, {"Q"}}]

\* an element of the slice b.dst.BackupList returns
RemoteBackups == [BackupName : BackupNames, Tables : Manifests]

DiffInputs ==
  [diffFrom : BackupNames,
   backupList : SeqsUpTo(RemoteBackups, MaxBackups),
   local : {[found |-> FALSE, Tables |-> <<>>]} \cup [found : {TRUE}, Tables : Manifests]]

TitleOf(t) == [Database |-> t.Database, Table |-> t.Table]

\* mutant of BuildDiffMap: the first element with a title is the one kept
RECURSIVE BuildDiffMapFirstWins(_, _, _)
BuildDiffMapFirstWins(m, list, i) ==
  IF i > Len(list) THEN m
  ELSE BuildDiffMapFirstWins(m @@ (TitleOf(list[i]) :> list[i]), list, i + 1)

\* lines 323-328, 355-360: the last element with a title is the one kept
RECURSIVE BuildDiffMap(_, _, _)
BuildDiffMap(m, list, i) ==
  IF i > Len(list) THEN m
  ELSE BuildDiffMap((TitleOf(list[i]) :> list[i]) @@ m, list, i + 1)

\* mutant of SameName: a name that contains the reference name is taken
SameNameSubstring(name, wanted) ==
  \E k \in 0..(Len(name) - Len(wanted)) : SubSeq(name, k + 1, k + Len(wanted)) = wanted

\* line 341
SameName(name, wanted) == name = wanted

\* lines 340-345: index of the first backup of the listing taken as the
\* reference, 0 when the loop ends without one
FindBackup(backupList, wanted) ==
  LET hits == {i \in 1..Len(backupList) : SameName(backupList[i].BackupName, wanted)}
  IN  IF hits = {} THEN 0 ELSE CHOOSE i \in hits : \A j \in hits : i <= j

\* the returned map: nil, or the map made at lines 311, 334
NilMap == [nil |-> TRUE, m |-> EmptyMap]
MadeMap(m) == [nil |-> FALSE, m |-> m]

\* what a call returned, with the calls it made: enumerated says that the
\* tables were enumerated, tables is the list the enumeration returned
DiffResult(fn, map, err, listErr, enumerated, tables) ==
  [called |-> TRUE, fn |-> fn, map |-> map, err |-> err, listErr |-> listErr,
   enumerated |-> enumerated, tables |-> tables]

\* lines 333-363; listErr is the error of BackupList, tables and patternErr
\* what getTableListByPatternRemote returns
getTablesDiffFromRemote(in, listErr, tables, patternErr) ==
  IF listErr # "" THEN DiffResult("remote", NilMap, listErr, listErr, FALSE, <<>>)
  ELSE LET i == FindBackup(in.backupList, in.diffFrom) IN
       IF i = 0
       THEN DiffResult("remote", NilMap, "not found on remote storage", "", FALSE, <<>>)
       ELSE IF Len(in.backupList[i].Tables) # 0
            THEN IF patternErr # ""
                 THEN DiffResult("remote", NilMap, patternErr, "", TRUE, <<>>)
                 ELSE DiffResult("remote", MadeMap(BuildDiffMap(EmptyMap, tables, 1)), "", "", TRUE,
                                 tables)
            ELSE DiffResult("remote", MadeMap(EmptyMap), "", "", FALSE, <<>>)

\* lines 310-331; tables and patternErr are what getTableListByPatternLocal
\* returns
getTablesDiffFromLocal(in, tables, patternErr) ==
  IF ~in.local.found
  THEN DiffResult("local", NilMap, "ReadBackupMetadataLocal", "", FALSE, <<>>)
  ELSE IF Len(in.local.Tables) # 0
       THEN IF patternErr # ""
            THEN DiffResult("local", NilMap, patternErr, "", TRUE, <<>>)
            ELSE DiffResult("local", MadeMap(BuildDiffMap(EmptyMap, tables, 1)), "", "", TRUE,
                                 tables)
       ELSE DiffResult("local", MadeMap(EmptyMap), "", "", FALSE, <<>>)

DiffInit ==
  /\ BatchIdle
  /\ UploadIdle
  /\ ShardIdle
  /\ LocIdle
  /\ dfIn \in DiffInputs
  /\ dfOut = NotCalled

CallDiffFromRemote ==
  /\ ~dfOut.called
  /\ \E listErr \in {"", "BackupList"}, patternErr \in {"", "getTableListByPattern"},
        tables \in SeqsUpTo(TableMetadatas, MaxDiffTables) :
       dfOut' = getTablesDiffFromRemote(dfIn, listErr, tables, patternErr)
  /\ UNCHANGED dfIn
  /\ UNCHANGED batchVars
  /\ UNCHANGED uploadVars
  /\ UNCHANGED shardVars
  /\ UNCHANGED locVars

CallDiffFromLocal ==
  /\ ~dfOut.called
  /\ \E patternErr \in {"", "getTableListByPattern"},
        tables \in SeqsUpTo(TableMetadatas, MaxDiffTables) :
       dfOut' = getTablesDiffFromLocal(dfIn, tables, patternErr)
  /\ UNCHANGED dfIn
  /\ UNCHANGED batchVars
  /\ UNCHANGED uploadVars
  /\ UNCHANGED shardVars
  /\ UNCHANGED locVars

DiffNext == CallDiffFromRemote \/ CallDiffFromLocal

SpecDiff == DiffInit /\ [][DiffNext]_vars

ListedNames == {dfIn.backupList[i].BackupName : i \in 1..Len(dfIn.backupList)}

\* C8: when the remote listing was read and holds no backup whose name
\* equals the requested diff-from name, getTablesDiffFromRemote returns the
\* "not found on remote storage" error and no map.
C8_RemoteDiffNotFound ==
  (/\ dfOut.called
   /\ dfOut.fn = "remote"
   /\ dfOut.listErr = ""
   /\ dfIn.diffFrom \notin ListedNames) =>
     /\ dfOut.err = "not found on remote storage"
     /\ dfOut.map.nil

\* C8 witness: the listing holds only a longer name that contains the
\* requested one, with tables in its manifest, and the call answered
C8_Witness ==
  /\ dfOut.called
  /\ dfOut.fn = "remote"
  /\ dfOut.listErr = ""
  /\ dfIn.diffFrom = <<"a">>
  /\ ListedNames = {<<"a", "b">>}
  /\ \E i \in 1..Len(dfIn.backupList) : Len(dfIn.backupList[i].Tables) > 0
  /\ dfOut.err = "not found on remote storage"

\* the tables of the manifest of the reference backup a call found
ReferenceTables ==
  IF dfOut.fn = "local" THEN dfIn.local.Tables
  ELSE dfIn.backupList[FindBackup(dfIn.backupList, dfIn.diffFrom)].Tables

\* the call found its reference backup
ReferenceFound ==
  /\ dfOut.called
  /\ dfOut.listErr = ""
  /\ IF dfOut.fn = "local" THEN dfIn.local.found ELSE dfIn.diffFrom \in ListedNames

\* C19: in both diff variants, a reference backup whose manifest lists no
\* table gives an empty map and a nil error without the tables being
\* enumerated; when the manifest lists tables and the enumeration succeeds,
\* the map has exactly one entry per (Database, Table) of the enumerated
\* tables, holding the last table of the enumeration with that title.
C19_DiffMapEntries ==
  ReferenceFound =>
    IF Len(ReferenceTables) = 0
    THEN /\ dfOut.err = ""
         /\ dfOut.map = MadeMap(EmptyMap)
         /\ ~dfOut.enumerated
    ELSE /\ dfOut.enumerated
         /\ dfOut.err = "" =>
              LET ts == dfOut.tables
                  last(title) == CHOOSE i \in 1..Len(ts) :
                                   /\ TitleOf(ts[i]) = title
                                   /\ \A j \in (i + 1)..Len(ts) : TitleOf(ts[j]) # title
              IN  /\ ~dfOut.map.nil
                  /\ DOMAIN dfOut.map.m = {TitleOf(ts[i]) : i \in 1..Len(ts)}
                  /\ \A title \in DOMAIN dfOut.map.m : dfOut.map.m[title] = ts[last(title)]

\* C19 witness: the enumeration returned db.t1 twice with different parts and
\* the map holds the one entry of the second
C19_Witness ==
  /\ ReferenceFound
  /\ Len(ReferenceTables) > 0
  /\ dfOut.err = ""
  /\ Len(dfOut.tables) = 2
  /\ TitleOf(dfOut.tables[1]) = TitleOf(dfOut.tables[2])
  /\ dfOut.tables[1] # dfOut.tables[2]
  /\ Cardinality(DOMAIN dfOut.map.m) = 1
  /\ \A title \in DOMAIN dfOut.map.m : dfOut.map.m[title] = dfOut.tables[2]

\* ------------------------------------------------------------------------
\* Backuper.getEmbeddedBackupLocation
\* ------------------------------------------------------------------------
\* A string is the sequence of its tokens, "" is <<>>; a nil error is <<>>.
\* b.cfg.S3
S3Configs ==
  [Endpoint : {<<>>, <<"minio:9000">>, <<"http", ":", "//", "minio:9000">>},
   Region : {<<>>, <<"us-east-1">>},
   Bucket : {<<>>, <<"mybucket">>},
   ForcePathStyle : BOOLEAN,
   DisableSSL : BOOLEAN,
   ObjectDiskPath : {<<>>, <<"backups">>, <<"{shard}">>},
   AccessKey : {<<>>, <<"AK">>},
   SecretKey : {<<"SK">>}]

\* b.cfg.GCS
GCSConfigs ==
  [Endpoint : {<<>>, <<"gcs.local">>, <<"http", ":", "//", "gcs.local">>},
   Bucket : {<<"gbucket">>},
   ForceHttp : BOOLEAN,
   ObjectDiskPath : {<<"{shard}">>},
   EmbeddedAccessKey : {<<>>, <<"GK">>},
   EmbeddedSecretKey : {<<"GS">>}]

\* b.cfg.AzureBlob
AzureBlobConfigs ==
  [EndpointSchema : {<<"https">>},
   EndpointSuffix : {<<"core.windows.net">>},
   AccountName : {<<"acct">>},
   AccountKey : {<<"key">>},
   Container : {<<>>, <<"cont">>},
   ObjectDiskPath : {<<"{shard}">>}]

\* the sections of the providers that general->remote_storage does not select
DefaultS3 ==
  [Endpoint |-> <<>>, Region |-> <<"us-east-1">>, Bucket |-> <<"mybucket">>,
   ForcePathStyle |-> FALSE, DisableSSL |-> FALSE, ObjectDiskPath |-> <<"{shard}">>,
   AccessKey |-> <<"AK">>, SecretKey |-> <<"SK">>]

DefaultGCS ==
  [Endpoint |-> <<>>, Bucket |-> <<"gbucket">>, ForceHttp |-> FALSE,
   ObjectDiskPath |-> <<"{shard}">>, EmbeddedAccessKey |-> <<"GK">>,
   EmbeddedSecretKey |-> <<"GS">>]

DefaultAzureBlob ==
  [EndpointSchema |-> <<"https">>, EndpointSuffix |-> <<"core.windows.net">>,
   AccountName |-> <<"acct">>, AccountKey |-> <<"key">>, Container |-> <<"cont">>,
   ObjectDiskPath |-> <<"{shard}">>]

RemoteStorages == {"none", "s3", "gcs", "azblob", "ftp"}

LocBackupNames == {<<"bk1">>, <<"bk2">>}

\* ch.ApplyMacros: every macro of the template is replaced by its value
ApplyMacros(template, fails) ==
  IF fails THEN [s |-> <<>>, err |-> <<"ApplyMacros">>]
  ELSE [s |-> [i \in DOMAIN template |-> IF template[i] = "{shard}" THEN "01" ELSE template[i]],
        err |-> <<>>]

\* path.Join of two clean elements: the empty ones are left out
Join(a, b) ==
  IF a = <<>> THEN b
  ELSE IF b = <<>> THEN a
  ELSE a \o <<"/">> \o b

\* strings.HasPrefix(endpoint, "http")
HasHttpPrefix(endpoint) == endpoint # <<>> /\ endpoint[1] \in {"http", "https"}

\* index of the first "/" of s, Len(s) + 1 when it has none
FirstSlash(s) ==
  LET hits == {i \in 1..Len(s) : s[i] = "/"}
  IN  IF hits = {} THEN Len(s) + 1 ELSE CHOOSE i \in hits : \A j \in hits : i <= j

\* url.Parse of scheme://host[/path]
ParseUrl(s) ==
  LET hasScheme == Len(s) >= 2 /\ s[2] = ":"
      rest == IF hasScheme THEN SubSeq(s, 3, Len(s)) ELSE s
      hasHost == rest # <<>> /\ rest[1] = "//"
      after == IF hasHost THEN SubSeq(rest, 2, Len(rest)) ELSE rest
      cut == FirstSlash(after)
  IN  [Scheme |-> IF hasScheme THEN <<s[1]>> ELSE <<>>,
       Host |-> IF hasHost THEN SubSeq(after, 1, cut - 1) ELSE <<>>,
       Path |-> IF hasHost THEN SubSeq(after, cut, Len(after)) ELSE after]

\* (*url.URL).String of a URL with Scheme, Host and Path
UrlString(u) ==
  (IF u.Scheme # <<>> THEN u.Scheme \o <<":">> ELSE <<>>)
  \o (IF u.Scheme # <<>> \/ u.Host # <<>>
      THEN (IF u.Host # <<>> \/ u.Path # <<>> THEN <<"//">> ELSE <<>>) \o u.Host
      ELSE <<>>)
  \o (IF u.Path # <<>> /\ u.Path[1] # "/" /\ u.Host # <<>> THEN <<"/">> ELSE <<>>)
  \o u.Path

\* line 259, 263: "s3." + Region + ".amazonaws.com"
RegionalHost(region) == <<"s3.">> \o region \o <<".amazonaws.com">>

\* mutant of VirtualHostPath: the bucket is in the host and in the path
VirtualHostPathWithBucket(bucket, objectDiskPath) == Join(bucket, objectDiskPath)

\* line 264: the path of a virtual-host URL
VirtualHostPath(bucket, objectDiskPath) == objectDiskPath

\* lines 244-267
buildEmbeddedLocationS3(s3) ==
  LET u0 == IF HasHttpPrefix(s3.Endpoint) THEN ParseUrl(s3.Endpoint)
            ELSE [Scheme |-> <<"https">>, Host |-> s3.Endpoint, Path |-> <<>>]
      u1 == [u0 EXCEPT !.Path = Join(s3.Bucket, s3.ObjectDiskPath)]
      u2 == IF s3.DisableSSL THEN [u1 EXCEPT !.Scheme = <<"http">>] ELSE u1
      u3 == IF u2.Host = <<>> /\ s3.Region # <<>> /\ s3.ForcePathStyle
            THEN [u2 EXCEPT !.Host = RegionalHost(s3.Region),
                            !.Path = Join(s3.Bucket, s3.ObjectDiskPath)]
            ELSE u2
      u4 == IF u3.Host = <<>> /\ s3.Bucket # <<>> /\ ~s3.ForcePathStyle
            THEN [u3 EXCEPT !.Host = s3.Bucket \o <<".">> \o RegionalHost(s3.Region),
                            !.Path = VirtualHostPath(s3.Bucket, s3.ObjectDiskPath)]
            ELSE u3
  IN  UrlString(u4)

\* lines 269-287
buildEmbeddedLocationGCS(gcs) ==
  LET u0 == [Scheme |-> IF gcs.ForceHttp THEN <<"http">> ELSE <<"https">>,
             Host |-> <<>>, Path |-> <<>>]
      u1 == IF gcs.Endpoint = <<>> THEN u0
            ELSE IF ~HasHttpPrefix(gcs.Endpoint) THEN [u0 EXCEPT !.Host = gcs.Endpoint]
            ELSE ParseUrl(gcs.Endpoint)
      u2 == IF u1.Host = <<>> THEN [u1 EXCEPT !.Host = <<"storage.googleapis.com">>] ELSE u1
  IN  UrlString([u2 EXCEPT !.Path = Join(gcs.Bucket, gcs.ObjectDiskPath)])

\* lines 289-295
buildEmbeddedLocationAZBLOB(az) ==
  <<"DefaultEndpointsProtocol=">> \o az.EndpointSchema \o <<";AccountName=">> \o az.AccountName
  \o <<";AccountKey=">> \o az.AccountKey \o <<";BlobEndpoint=">>
  \o UrlString([Scheme |-> az.EndpointSchema, Host |-> az.EndpointSuffix,
                Path |-> az.AccountName])
  \o <<";">>

\* lines 232-242: b.cfg after the call, the error, and the templates passed to
\* ApplyMacros
applyMacrosToObjectDiskPath(cfg, fails) ==
  IF cfg.RemoteStorage = "s3"
  THEN LET r == ApplyMacros(cfg.S3.ObjectDiskPath, fails)
       IN  [cfg |-> [cfg EXCEPT !.S3.ObjectDiskPath = r.s], err |-> r.err,
            calls |-> <<cfg.S3.ObjectDiskPath>>]
  ELSE IF cfg.RemoteStorage = "gcs"
  THEN LET r == ApplyMacros(cfg.GCS.ObjectDiskPath, fails)
       IN  [cfg |-> [cfg EXCEPT !.GCS.ObjectDiskPath = r.s], err |-> r.err,
            calls |-> <<cfg.GCS.ObjectDiskPath>>]
  ELSE IF cfg.RemoteStorage = "azblob"
  THEN LET r == ApplyMacros(cfg.AzureBlob.ObjectDiskPath, fails)
       IN  [cfg |-> [cfg EXCEPT !.AzureBlob.ObjectDiskPath = r.s], err |-> r.err,
            calls |-> <<cfg.AzureBlob.ObjectDiskPath>>]
  ELSE [cfg |-> cfg, err |-> <<>>, calls |-> <<>>]

\* line 186
DiskLocation(disk, backupName) == <<"Disk('">> \o disk \o <<"','">> \o backupName \o <<"')">>

\* lines 198, 201, 211, 214
S3Location(endpoint, backupName, accessKey, secretKey) ==
  <<"S3('">> \o endpoint \o <<"/">> \o backupName \o <<"','">> \o accessKey \o <<"','">>
  \o secretKey \o <<"')">>

\* line 225
AzureBlobLocation(endpoint, container, objectDiskPath, backupName) ==
  <<"AzureBlobStorage('">> \o endpoint \o <<"','">> \o container \o <<"','">>
  \o objectDiskPath \o <<"/">> \o backupName \o <<"')">>

\* lines 203, 216, 227
MissingKeysError(storage) ==
  IF storage = "s3" THEN <<"provide s3->access_key and s3->secret_key in config">>
  ELSE IF storage = "gcs"
  THEN <<"provide gcs->embedded_access_key and gcs->embedded_secret_key in config">>
  ELSE <<"provide azblob->container and azblob->account_name, azblob->account_key in config">>

\* line 229
InvalidStorageError(storage) ==
  <<"empty clickhouse->embedded_backup_disk and invalid general->remote_storage: ", storage>>

\* mutant of UsesBackupDisk: the backup disk is not looked at
UsesBackupDiskNever(cfg) == FALSE

\* line 185
UsesBackupDisk(cfg) == cfg.EmbeddedBackupDisk # <<>>

\* lines 184-230; fails1 and fails2 say whether the first and the second call
\* of ApplyMacros return an error
getEmbeddedBackupLocation(cfg, backupName, fails1, fails2) ==
  LET out(loc, err, c, calls) == [loc |-> loc, err |-> err, cfg |-> c, calls |-> calls]
      env == cfg.Env
  IN
  IF UsesBackupDisk(cfg)
  THEN out(DiskLocation(cfg.EmbeddedBackupDisk, backupName), <<>>, cfg, <<>>)
  ELSE
  LET a == applyMacrosToObjectDiskPath(cfg, fails1)
      c == a.cfg
  IN
  IF a.err # <<>> THEN out(<<>>, a.err, c, a.calls)
  ELSE IF c.RemoteStorage = "s3"
  THEN LET t == buildEmbeddedLocationS3(c.S3)
           e == ApplyMacros(t, fails2)
           calls == Append(a.calls, t)
       IN  IF e.err # <<>> THEN out(<<>>, e.err, c, calls)
           ELSE IF c.S3.AccessKey # <<>>
           THEN out(S3Location(e.s, backupName, c.S3.AccessKey, c.S3.SecretKey), <<>>, c, calls)
           ELSE IF env.AWS_ACCESS_KEY_ID # <<>>
           THEN out(S3Location(e.s, backupName, env.AWS_ACCESS_KEY_ID,
                               env.AWS_SECRET_ACCESS_KEY), <<>>, c, calls)
           ELSE out(<<>>, MissingKeysError("s3"), c, calls)
  ELSE IF c.RemoteStorage = "gcs"
  THEN LET t == buildEmbeddedLocationGCS(c.GCS)
           e == ApplyMacros(t, fails2)
           calls == Append(a.calls, t)
       IN  IF e.err # <<>> THEN out(<<>>, e.err, c, calls)
           ELSE IF c.GCS.EmbeddedAccessKey # <<>>
           THEN out(S3Location(e.s, backupName, c.GCS.EmbeddedAccessKey,
                               c.GCS.EmbeddedSecretKey), <<>>, c, calls)
           ELSE IF env.AWS_ACCESS_KEY_ID # <<>>
           THEN out(S3Location(e.s, backupName, env.AWS_ACCESS_KEY_ID,
                               env.AWS_SECRET_ACCESS_KEY), <<>>, c, calls)
           ELSE out(<<>>, MissingKeysError("gcs"), c, calls)
  ELSE IF c.RemoteStorage = "azblob"
  THEN LET t == buildEmbeddedLocationAZBLOB(c.AzureBlob)
           e == ApplyMacros(t, fails2)
           calls == Append(a.calls, t)
       IN  IF e.err # <<>> THEN out(<<>>, e.err, c, calls)
           ELSE IF c.AzureBlob.Container # <<>>
           THEN out(AzureBlobLocation(e.s, c.AzureBlob.Container,
                                      c.AzureBlob.ObjectDiskPath, backupName), <<>>, c, calls)
           ELSE out(<<>>, MissingKeysError("azblob"), c, calls)
  ELSE out(<<>>, InvalidStorageError(c.RemoteStorage), c, a.calls)

LocInit ==
  /\ BatchIdle
  /\ UploadIdle
  /\ ShardIdle
  /\ DiffIdle
  /\ \E storage \in RemoteStorages, disk \in {<<>>, <<"backups_disk">>},
        key \in {<<>>, <<"EK">>}, s3 \in S3Configs, gcs \in GCSConfigs,
        az \in AzureBlobConfigs :
       /\ storage # "s3" => s3 = DefaultS3
       /\ storage # "gcs" => gcs = DefaultGCS
       /\ storage # "azblob" => az = DefaultAzureBlob
       /\ locCfg = [RemoteStorage |-> storage, EmbeddedBackupDisk |-> disk,
                    S3 |-> s3, GCS |-> gcs, AzureBlob |-> az,
                    Env |-> [AWS_ACCESS_KEY_ID |-> key,
                             AWS_SECRET_ACCESS_KEY |-> <<"ES">>]]
  /\ locOut = NotCalled
  /\ locCalls = 0

\* one call of b.getEmbeddedBackupLocation(ctx, backupName)
CallGetEmbeddedBackupLocation ==
  /\ locCalls < MaxLocCalls
  /\ \E backupName \in LocBackupNames, fails1 \in BOOLEAN, fails2 \in BOOLEAN :
       LET r == getEmbeddedBackupLocation(locCfg, backupName, fails1, fails2) IN
       /\ locCfg' = r.cfg
       /\ locOut' = [called |-> TRUE, loc |-> r.loc, err |-> r.err, macroCalls |-> r.calls,
                     before |-> locCfg, backupName |-> backupName]
  /\ locCalls' = locCalls + 1
  /\ UNCHANGED batchVars
  /\ UNCHANGED uploadVars
  /\ UNCHANGED shardVars
  /\ UNCHANGED diffVars

LocNext == CallGetEmbeddedBackupLocation

SpecLoc == LocInit /\ [][LocNext]_vars

\* ------------------------------------------------------------------------
\* Reading a call of getEmbeddedBackupLocation
\* ------------------------------------------------------------------------
\* the call took the s3 branch and built its URL: the second template passed
\* to ApplyMacros (line 193) is what buildEmbeddedLocationS3 returned
BuiltS3Url ==
  /\ locOut.called
  /\ locOut.before.EmbeddedBackupDisk = <<>>
  /\ locOut.before.RemoteStorage = "s3"
  /\ Len(locOut.macroCalls) = 2

\* the S3 section of spec 7's concrete case, whatever the other fields are
ConcreteS3Case(s3) ==
  /\ s3.Endpoint = <<>>
  /\ s3.Region = <<"us-east-1">>
  /\ s3.Bucket = <<"mybucket">>
  /\ s3.ObjectDiskPath = <<"backups">>

\* host and path of a URL string; the path without the slash that separates
\* it from the host
HostOf(urlString) == ParseUrl(urlString).Host
PathOf(urlString) == TrimPrefix(ParseUrl(urlString).Path, <<"/">>)

\* C14: with no endpoint, region us-east-1, bucket mybucket and sub-path
\* backups, buildEmbeddedLocationS3 returns a URL with host
\* mybucket.s3.us-east-1.amazonaws.com and path backups when force-path-style
\* is false, and with host s3.us-east-1.amazonaws.com and path
\* mybucket/backups when it is true.
C14_S3VirtualHostAndPathStyle ==
  (BuiltS3Url /\ ConcreteS3Case(locOut.before.S3)) =>
    LET u == locOut.macroCalls[2] IN
    IF locOut.before.S3.ForcePathStyle
    THEN /\ HostOf(u) = <<"s3.", "us-east-1", ".amazonaws.com">>
         /\ PathOf(u) = <<"mybucket", "/", "backups">>
    ELSE /\ HostOf(u) = <<"mybucket", ".", "s3.", "us-east-1", ".amazonaws.com">>
         /\ PathOf(u) = <<"backups">>

\* C14 witness: the concrete case with force-path-style false reached the
\* second ApplyMacros call with a https URL
C14_Witness ==
  /\ BuiltS3Url
  /\ ConcreteS3Case(locOut.before.S3)
  /\ ~locOut.before.S3.ForcePathStyle
  /\ ~locOut.before.S3.DisableSSL
  /\ locOut.macroCalls[2][1] = "https"
  /\ locOut.err = <<>>

\* the object-disk sub-paths of b.cfg
ObjectDiskPaths(cfg) ==
  <<cfg.S3.ObjectDiskPath, cfg.GCS.ObjectDiskPath, cfg.AzureBlob.ObjectDiskPath>>

\* C18: with an embedded backup disk configured, getEmbeddedBackupLocation
\* returns Disk('<disk>','<backupName>') and a nil error for every
\* remote_storage, passes nothing to ApplyMacros and leaves the object-disk
\* sub-paths of the configuration as they were; with no backup disk and a
\* remote_storage other than s3, gcs and azblob it returns an error that
\* names the value.
C18_BackupDiskFirst ==
  locOut.called =>
    /\ locOut.before.EmbeddedBackupDisk # <<>> =>
         /\ locOut.loc = <<"Disk('">> \o locOut.before.EmbeddedBackupDisk \o <<"','">>
                         \o locOut.backupName \o <<"')">>
         /\ locOut.err = <<>>
         /\ locOut.macroCalls = <<>>
         /\ ObjectDiskPaths(locCfg) = ObjectDiskPaths(locOut.before)
    /\ (/\ locOut.before.EmbeddedBackupDisk = <<>>
        /\ locOut.before.RemoteStorage \notin {"s3", "gcs", "azblob"}) =>
         /\ locOut.loc = <<>>
         /\ locOut.err # <<>>
         /\ locOut.err[Len(locOut.err)] = locOut.before.RemoteStorage

\* C18 witness: a backup disk with remote_storage s3, no credentials and a
\* macro in the sub-path
C18_Witness ==
  /\ locOut.called
  /\ locOut.before.EmbeddedBackupDisk = <<"backups_disk">>
  /\ locOut.before.RemoteStorage = "s3"
  /\ locOut.before.S3.AccessKey = <<>>
  /\ locOut.before.Env.AWS_ACCESS_KEY_ID = <<>>
  /\ locOut.before.S3.ObjectDiskPath = <<"{shard}">>
  /\ locOut.loc = <<"Disk('", "backups_disk", "','", "bk2", "')">>

\* the configuration names no usable credentials or container for its provider
MissingCredentials(cfg) ==
  \/ /\ cfg.RemoteStorage = "s3"
     /\ cfg.S3.AccessKey = <<>>
     /\ cfg.Env.AWS_ACCESS_KEY_ID = <<>>
  \/ /\ cfg.RemoteStorage = "gcs"
     /\ cfg.GCS.EmbeddedAccessKey = <<>>
     /\ cfg.Env.AWS_ACCESS_KEY_ID = <<>>
  \/ /\ cfg.RemoteStorage = "azblob"
     /\ cfg.AzureBlob.Container = <<>>

\* C11: getEmbeddedBackupLocation, with no backup disk configured, returns an
\* error for an unsupported remote_storage and for missing credentials or
\* container without any ApplyMacros call before it.
C11_ConfigErrorBeforeDatabase ==
  (/\ locOut.called
   /\ locOut.before.EmbeddedBackupDisk = <<>>
   /\ \/ locOut.before.RemoteStorage \notin {"s3", "gcs", "azblob"}
      \/ MissingCredentials(locOut.before)) =>
     /\ locOut.err # <<>>
     /\ locOut.macroCalls = <<>>

====
